---- MODULE Spec2Model ----
(***************************************************************************)
(* Metal_Print_Simulator: the material parameters chosen by the viewer     *)
(* (PrintMesh) and by the static export (generateStandaloneHtml), the      *)
(* promise machine of processTextureMaps, and the App component's state.   *)
(*                                                                         *)
(* Numbers are fixed-point hundredths: 0.02 is 2, 1.0 is 100, 8.0 is 800.  *)
(* Three specifications share the module:                                  *)
(*   SpecResolve  PrintMesh and generateStandaloneHtml applied to inputs   *)
(*                drawn from bounded sets;                                 *)
(*   SpecSynth    one call of processTextureMaps, event by event;          *)
(*   SpecRaster   one call of processTextureMaps on small mask images,     *)
(*                with the pixel buffers runProcessing fills;              *)
(*   Spec         the App component: uploads, sliders, the preview toggle, *)
(*                the debounce timer and the syntheses in flight.          *)
(***************************************************************************)
EXTENDS Integers, Sequences, FiniteSets, Bags, TLC

VARIABLES
  \* --- SpecResolve -------------------------------------------------------
  resolveIn,        \* the props handed to PrintMesh / generateStandaloneHtml
  viewerMaterial,   \* the meshPhysicalMaterial props PrintMesh rendered
  exportHtml,       \* the holes of the HTML template, as filled in
  exportMaterial,   \* the MeshPhysicalMaterial the exported script builds
  \* --- SpecSynth ---------------------------------------------------------
  call,             \* one processTextureMaps call: arguments, position, promise
  \* --- SpecRaster --------------------------------------------------------
  raster,           \* one processTextureMaps call with the pixel buffers it fills
  \* --- Spec (App) --------------------------------------------------------
  config, cmykUrl, whiteFile, whiteUrl, varnishFile, varnishUrl,
  metalnessMapUrl, roughnessMapUrl, clearcoatMapUrl,
  isProcessing, isPaperPreview,
  timer,            \* the pending setTimeout of the debounce effect, or NULL
  inFlight          \* the bag of processTextures calls awaiting processTextureMaps

resolveVars == <<resolveIn, viewerMaterial, exportHtml, exportMaterial>>
synthVars == <<call>>
rasterVars == <<raster>>
appVars == <<config, cmykUrl, whiteFile, whiteUrl, varnishFile, varnishUrl,
             metalnessMapUrl, roughnessMapUrl, clearcoatMapUrl,
             isProcessing, isPaperPreview, timer, inFlight>>
vars == <<resolveVars, synthVars, appVars, rasterVars>>

----------------------------------------------------------------------------
(* Values                                                                  *)

\* null (a URL, a texture, a file, a timer that is not there)
NULL == [scheme |-> "null"]

\* an optional number that is not set (PrintConfig.varnishBump?)
Undefined == -1

\* JavaScript truthiness of an optional number: undefined and 0 are falsy
Truthy(x) == x # Undefined /\ x # 0

\* URL.createObjectURL(file): a blob: URL of the file's bytes
createObjectURL(file) == [scheme |-> "blob", content |-> [file |-> file]]

\* canvas.toDataURL(): a data: URL of the pixels of a generated map
toDataURL(pixels) == [scheme |-> "data", content |-> pixels]

\* a || b on nullable URLs
OrUrl(a, b) == IF a # NULL THEN a ELSE b

\* useTexture(url) / textureLoader.load(url): the texture of the image there
useTexture(url) == url.content

DEFAULT_CONFIG ==
  [metalRoughness |-> 20, paperRoughness |-> 100, inkGlossiness |-> 0,
   exposure |-> 100, varnishBump |-> 2]

----------------------------------------------------------------------------
(* Numbers written into the HTML template and read back by the script      *)

RECURSIVE IntDigits(_)
IntDigits(n) == IF n < 10 THEN <<n>> ELSE Append(IntDigits(n \div 10), n % 10)

RECURSIVE DigitsValue(_)
DigitsValue(ds) ==
  IF Len(ds) = 0 THEN 0
  ELSE 10 * DigitsValue(SubSeq(ds, 1, Len(ds) - 1)) + ds[Len(ds)]

\* `${n}` / JSON.stringify(n): the shortest decimal, "0.2" and not "0.20"
NumberToString(n) ==
  LET f == n % 100
  IN  [int  |-> IntDigits(n \div 100),
       frac |-> IF f = 0 THEN <<>>
                ELSE IF f % 10 = 0 THEN <<f \div 10>>
                ELSE <<f \div 10, f % 10>>]

\* the script's reading of a numeric literal
ParseNumber(s) ==
  100 * DigitsValue(s.int)
    + (IF Len(s.frac) = 0 THEN 0
       ELSE IF Len(s.frac) = 1 THEN 10 * s.frac[1]
       ELSE 10 * s.frac[1] + s.frac[2])

\* the literals '1.0' and '0.0' of the template
Lit10 == [int |-> <<1>>, frac |-> <<0>>]
Lit00 == [int |-> <<0>>, frac |-> <<0>>]

\* a property JSON.stringify leaves out (its value is undefined)
Omitted == [omitted |-> TRUE]

\* const config = ${JSON.stringify(config)}
JSONstringify(cfg) ==
  [metalRoughness |-> NumberToString(cfg.metalRoughness),
   paperRoughness |-> NumberToString(cfg.paperRoughness),
   inkGlossiness  |-> NumberToString(cfg.inkGlossiness),
   exposure       |-> NumberToString(cfg.exposure),
   varnishBump    |-> IF cfg.varnishBump = Undefined THEN Omitted
                      ELSE NumberToString(cfg.varnishBump)]

\* the config object the exported script evaluates
ScriptConfig(json) ==
  [metalRoughness |-> ParseNumber(json.metalRoughness),
   paperRoughness |-> ParseNumber(json.paperRoughness),
   inkGlossiness  |-> ParseNumber(json.inkGlossiness),
   exposure       |-> ParseNumber(json.exposure),
   varnishBump    |-> IF json.varnishBump = Omitted THEN Undefined
                      ELSE ParseNumber(json.varnishBump)]

\* config.exposure, not reduced
TimesOne(x) == x

\* x * 0.2
TimesPoint2(x) == (x * 20) \div 100

----------------------------------------------------------------------------
(* The viewer: PrintMesh                                                   *)

\* const useMaps = !isPaperPreview || hasVarnish
useMapsPaperBlind(isPaper, hasVarnish) == ~isPaper

useMaps(isPaper, hasVarnish) == ~isPaper \/ hasVarnish

\* clearcoatValue: 1.0 with varnish, else 0.0 on paper, else config.inkGlossiness
clearcoatValueInkFirst(isPaper, hasVarnish, cfg) ==
  IF ~isPaper THEN cfg.inkGlossiness ELSE IF hasVarnish THEN 100 ELSE 0

clearcoatValue(isPaper, hasVarnish, cfg) ==
  IF hasVarnish THEN 100
  ELSE IF ~isPaper THEN cfg.inkGlossiness
  ELSE 0

PrintMesh(cmyk, metalnessUrl, roughnessUrl, clearcoatUrl, cfg, isPaper) ==
  LET colorMap == useTexture(cmyk)
      metalMap == useTexture(OrUrl(metalnessUrl, cmyk))
      roughMap == useTexture(OrUrl(roughnessUrl, cmyk))
      coatMap  == useTexture(OrUrl(clearcoatUrl, cmyk))
      hasVarnish == clearcoatUrl # NULL
      maps == useMaps(isPaper, hasVarnish)
  IN  [map          |-> colorMap,
       metalnessMap |-> IF maps THEN metalMap ELSE NULL,
       roughnessMap |-> IF maps THEN roughMap ELSE NULL,
       clearcoatMap |-> IF hasVarnish THEN coatMap ELSE NULL,
       bumpMap      |-> IF hasVarnish THEN coatMap ELSE NULL,
       bumpScale    |-> IF hasVarnish
                        THEN (IF Truthy(cfg.varnishBump) THEN cfg.varnishBump ELSE 2)
                        ELSE 0,
       metalness    |-> IF ~isPaper /\ maps THEN 100 ELSE 0,
       roughness    |-> IF maps THEN 100 ELSE cfg.paperRoughness,
       clearcoat    |-> clearcoatValue(isPaper, hasVarnish, cfg),
       envMapIntensity |-> IF isPaper THEN TimesPoint2(cfg.exposure)
                           ELSE cfg.exposure]

----------------------------------------------------------------------------
(* The static export: generateStandaloneHtml, and the script it writes     *)

urlToBase64(url) ==
  IF url.scheme = "data" THEN url
  ELSE [scheme |-> "data", content |-> url.content]

\* const shouldLoadMaps = !isPaperPreview || hasVarnish
shouldLoadMapsAlways(isPaper, hasVarnish) == TRUE

shouldLoadMaps(isPaper, hasVarnish) == ~isPaper \/ hasVarnish

\* clearcoatValStr: '1.0' with varnish, else '0.0' on paper, else `${inkGlossiness}`
clearcoatValStr(isPaper, hasVarnish, cfg) ==
  IF hasVarnish THEN Lit10
  ELSE IF ~isPaper THEN NumberToString(cfg.inkGlossiness)
  ELSE Lit00

generateStandaloneHtml(cmyk, metalnessUrl, roughnessUrl, clearcoatUrl, cfg, isPaper) ==
  LET cmykBase64 == urlToBase64(cmyk)
      hasVarnish == clearcoatUrl # NULL
      loadMaps == shouldLoadMaps(isPaper, hasVarnish)
      metalBase64 == IF loadMaps /\ metalnessUrl # NULL
                     THEN urlToBase64(metalnessUrl) ELSE NULL
      roughBase64 == IF loadMaps /\ roughnessUrl # NULL
                     THEN urlToBase64(roughnessUrl) ELSE NULL
      coatBase64  == IF hasVarnish /\ clearcoatUrl # NULL
                     THEN urlToBase64(clearcoatUrl) ELSE NULL
  IN  [config    |-> JSONstringify(cfg),
       cmykTex   |-> cmykBase64,
       metalTex  |-> metalBase64,
       roughTex  |-> roughBase64,
       coatTex   |-> coatBase64,
       metalness |-> IF ~isPaper /\ metalnessUrl # NULL THEN Lit10 ELSE Lit00,
       roughness |-> IF loadMaps /\ roughnessUrl # NULL THEN Lit10
                     ELSE NumberToString(cfg.paperRoughness),
       clearcoat |-> clearcoatValStr(isPaper, hasVarnish, cfg),
       envMapIntensity |-> NumberToString(IF isPaper THEN TimesPoint2(cfg.exposure)
                                          ELSE cfg.exposure)]

\* new THREE.MeshPhysicalMaterial({...}) as the exported script evaluates it
StandaloneMaterial(html) ==
  LET scriptConfig == ScriptConfig(html.config)
      cmykTex  == useTexture(html.cmykTex)
      metalTex == IF html.metalTex # NULL THEN useTexture(html.metalTex) ELSE NULL
      roughTex == IF html.roughTex # NULL THEN useTexture(html.roughTex) ELSE NULL
      coatTex  == IF html.coatTex # NULL THEN useTexture(html.coatTex) ELSE NULL
  IN  [map          |-> cmykTex,
       metalnessMap |-> metalTex,
       roughnessMap |-> roughTex,
       clearcoatMap |-> coatTex,
       bumpMap      |-> coatTex,
       bumpScale    |-> IF coatTex # NULL /\ Truthy(scriptConfig.varnishBump)
                        THEN scriptConfig.varnishBump ELSE 0,
       metalness    |-> ParseNumber(html.metalness),
       roughness    |-> ParseNumber(html.roughness),
       clearcoat    |-> ParseNumber(html.clearcoat),
       envMapIntensity |-> ParseNumber(html.envMapIntensity)]

----------------------------------------------------------------------------
(* Uploaded files                                                          *)

\* the files a user picks from: an image the browser decodes, and one it cannot
Files == [decodable : BOOLEAN]

\* whether the browser fires onload (TRUE) or onerror (FALSE) for img.src = url
Decodable(url) == url.content.file.decodable


----------------------------------------------------------------------------
(* processTextureMaps: the promise, event by event                         *)

\* the pixels of one generated map, named by what they were computed from
MapPixels(kind, whiteImg, varnishImg, metalRoughness, paperRoughness) ==
  [map |-> kind, white |-> whiteImg, varnish |-> varnishImg,
   metalRoughness |-> metalRoughness, paperRoughness |-> paperRoughness]

Settle(c, how, value) ==
  [c EXCEPT !.pc = "settled", !.promise = how, !.value = value]

\* runProcessing(whiteImg, varnishImg): rejects without a 2D context, else
\* resolves with the three map URLs (clearcoatMap only with a varnish image)
runProcessing(c, whiteImg, varnishImg) ==
  IF ~c.context
  THEN Settle(c, "rejected", [error |-> "Could not get canvas context"])
  ELSE Settle(c, "resolved",
         [metalnessMap |-> toDataURL(MapPixels("metalness", whiteImg, varnishImg,
                                               c.metalRoughness, c.paperRoughness)),
          roughnessMap |-> toDataURL(MapPixels("roughness", whiteImg, varnishImg,
                                               c.metalRoughness, c.paperRoughness)),
          clearcoatMap |-> IF varnishImg # NULL
                           THEN toDataURL(MapPixels("clearcoat", whiteImg, varnishImg,
                                                    c.metalRoughness, c.paperRoughness))
                           ELSE NULL])

\* a call as the caller makes it; context: whether getContext('2d') succeeds
NewCall(imgSrc, varnishSrc, metalRoughness, paperRoughness, context) ==
  [imgSrc |-> imgSrc, varnishSrc |-> varnishSrc,
   metalRoughness |-> metalRoughness, paperRoughness |-> paperRoughness,
   context |-> context, pc |-> "called", promise |-> "pending", value |-> NULL]

\* the promise executor's loading logic, run synchronously by the call
ExecutorWithoutCase3(c) ==
  IF c.imgSrc # NULL THEN [c EXCEPT !.pc = "img"]
  ELSE IF c.varnishSrc # NULL THEN [c EXCEPT !.pc = "vImgAlone"]
  ELSE runProcessing(c, NULL, NULL)

Executor(c) ==
  IF c.imgSrc # NULL THEN [c EXCEPT !.pc = "img"]
  ELSE IF c.varnishSrc # NULL THEN [c EXCEPT !.pc = "vImgAlone"]
  ELSE Settle(c, "rejected", [error |-> "No textures to process"])

\* Case 1, img.onload
ImgOnload(c) ==
  IF c.varnishSrc # NULL THEN [c EXCEPT !.pc = "vImg"]
  ELSE runProcessing(c, c.imgSrc.content, NULL)

\* Case 1, img.onerror
ImgOnerror(c) == Settle(c, "rejected", [error |-> "img.onerror"])

\* Case 1, vImg.onload
VImgOnload(c) == runProcessing(c, c.imgSrc.content, c.varnishSrc.content)

\* Case 1, vImg.onerror
VImgOnerrorRejects(c) == Settle(c, "rejected", [error |-> "Failed to load varnish"])

VImgOnerror(c) == runProcessing(c, c.imgSrc.content, NULL)

\* Case 2, vImg.onload
VImgAloneOnload(c) == runProcessing(c, NULL, c.varnishSrc.content)

\* Case 2, vImg.onerror
VImgAloneOnerror(c) == Settle(c, "rejected", [error |-> "Failed to load varnish"])

\* the image event the browser delivers next to a pending call
ImageEvent(c) ==
  CASE c.pc = "img" ->
         IF Decodable(c.imgSrc) THEN ImgOnload(c) ELSE ImgOnerror(c)
    [] c.pc = "vImg" ->
         IF Decodable(c.varnishSrc) THEN VImgOnload(c) ELSE VImgOnerror(c)
    [] c.pc = "vImgAlone" ->
         IF Decodable(c.varnishSrc) THEN VImgAloneOnload(c) ELSE VImgAloneOnerror(c)

Urls == {NULL} \cup {createObjectURL(f) : f \in Files}

----------------------------------------------------------------------------
(* The App component                                                       *)

\* processTextures calls that may be awaiting their images at once
MaxInFlight == 2

\* the values the sliders are moved to (the defaults come back with the reset)
MetalRoughnessValues == {20, 50}
PaperRoughnessValues == {100}
VarnishBumpValues == {0}

\* the closure the debounce effect hands to setTimeout
NewTimer(wUrl, vUrl, cfg) ==
  [whiteUrl |-> wUrl, varnishUrl |-> vUrl,
   metalRoughness |-> cfg.metalRoughness, paperRoughness |-> cfg.paperRoughness]

\* the debounce effect without its cleanup: a pending timer is left to fire
DebounceEffectKeepsPending(wUrl, vUrl, cfg) ==
  IF timer # NULL THEN timer
  ELSE IF wUrl = NULL /\ vUrl = NULL THEN NULL ELSE NewTimer(wUrl, vUrl, cfg)

\* the debounce effect after a render in which one of its dependencies changed:
\* the cleanup clears the old timer; a new one starts unless both masks are null
DebounceEffect(wUrl, vUrl, cfg) ==
  IF wUrl = NULL /\ vUrl = NULL THEN NULL ELSE NewTimer(wUrl, vUrl, cfg)

\* Controls: hasWhiteInk = !!whiteFileName, hasVarnish = !!varnishFileName
hasWhiteInk == whiteFile # NULL
hasVarnishFile == varnishFile # NULL

\* setIsPaperPreview(false) as the MetPol button calls it
MetPolClickUnguarded(hasWhite, isPaper) == FALSE

MetPolClick(hasWhite, isPaper) == IF hasWhite THEN FALSE ELSE isPaper

\* processTextures up to its await: the early return that clears the maps, or
\* setIsProcessing(true) and a processTextureMaps call with the closure's config
processTextures(wUrl, vUrl, metalRoughness, paperRoughness) ==
  IF wUrl = NULL /\ vUrl = NULL
  THEN /\ metalnessMapUrl' = NULL
       /\ roughnessMapUrl' = NULL
       /\ clearcoatMapUrl' = NULL
       /\ UNCHANGED <<isProcessing, inFlight>>
  ELSE /\ isProcessing' = TRUE
       /\ inFlight' = inFlight (+) SetToBag(
            {Executor(NewCall(wUrl, vUrl, metalRoughness, paperRoughness, TRUE))})
       /\ UNCHANGED <<metalnessMapUrl, roughnessMapUrl, clearcoatMapUrl>>

\* the maps processTextures stores once processTextureMaps has resolved
StoredMapsWithoutRoughness(value) ==
  [metalnessMapUrl |-> value.metalnessMap,
   roughnessMapUrl |-> NULL,
   clearcoatMapUrl |-> value.clearcoatMap]

StoredMapsWithoutMetalness(value) ==
  [metalnessMapUrl |-> NULL,
   roughnessMapUrl |-> value.roughnessMap,
   clearcoatMapUrl |-> value.clearcoatMap]

StoredMaps(value) ==
  [metalnessMapUrl |-> value.metalnessMap,
   roughnessMapUrl |-> value.roughnessMap,
   clearcoatMapUrl |-> value.clearcoatMap]

\* processTextures after its await, with a catch that clears the maps
processTexturesSettledClearing(c) ==
  /\ IF c.promise = "resolved"
     THEN /\ metalnessMapUrl' = StoredMaps(c.value).metalnessMapUrl
          /\ roughnessMapUrl' = StoredMaps(c.value).roughnessMapUrl
          /\ clearcoatMapUrl' = StoredMaps(c.value).clearcoatMapUrl
     ELSE /\ metalnessMapUrl' = NULL
          /\ roughnessMapUrl' = NULL
          /\ clearcoatMapUrl' = NULL
  /\ isProcessing' = FALSE

\* processTextures after its await: try / catch / finally
processTexturesSettled(c) ==
  /\ IF c.promise = "resolved"
     THEN /\ metalnessMapUrl' = StoredMaps(c.value).metalnessMapUrl
          /\ roughnessMapUrl' = StoredMaps(c.value).roughnessMapUrl
          /\ clearcoatMapUrl' = StoredMaps(c.value).clearcoatMapUrl
     ELSE UNCHANGED <<metalnessMapUrl, roughnessMapUrl, clearcoatMapUrl>>
  /\ isProcessing' = FALSE

\* useState initial values, then the mount effects: the effect of lines 52-56
\* runs on mount with whiteUrl null and sets isPaperPreview before any event
\* handler can run; the debounce effect returns early
AppInit ==
  /\ config = DEFAULT_CONFIG
  /\ cmykUrl = NULL
  /\ whiteFile = NULL /\ whiteUrl = NULL
  /\ varnishFile = NULL /\ varnishUrl = NULL
  /\ metalnessMapUrl = NULL /\ roughnessMapUrl = NULL /\ clearcoatMapUrl = NULL
  /\ isProcessing = FALSE
  /\ isPaperPreview = TRUE
  /\ timer = NULL
  /\ inFlight = EmptyBag

handleUploadCmyk(file) ==
  /\ cmykUrl' = createObjectURL(file)
  /\ UNCHANGED <<config, whiteFile, whiteUrl, varnishFile, varnishUrl,
                 metalnessMapUrl, roughnessMapUrl, clearcoatMapUrl,
                 isProcessing, isPaperPreview, timer, inFlight>>
  /\ UNCHANGED <<resolveVars, synthVars, rasterVars>>

handleUploadWhite(file) ==
  /\ BagCardinality(inFlight) < MaxInFlight
  /\ whiteFile' = file
  /\ whiteUrl' = createObjectURL(file)
  /\ processTextures(createObjectURL(file), varnishUrl,
                     config.metalRoughness, config.paperRoughness)
  /\ timer' = DebounceEffect(whiteUrl', varnishUrl, config)
  /\ UNCHANGED <<config, cmykUrl, varnishFile, varnishUrl, isPaperPreview>>
  /\ UNCHANGED <<resolveVars, synthVars, rasterVars>>

handleUploadVarnish(file) ==
  /\ BagCardinality(inFlight) < MaxInFlight
  /\ varnishFile' = file
  /\ varnishUrl' = createObjectURL(file)
  /\ processTextures(whiteUrl, createObjectURL(file),
                     config.metalRoughness, config.paperRoughness)
  /\ timer' = DebounceEffect(whiteUrl, varnishUrl', config)
  /\ UNCHANGED <<config, cmykUrl, whiteFile, whiteUrl, isPaperPreview>>
  /\ UNCHANGED <<resolveVars, synthVars, rasterVars>>

\* the MetPol button: onClick={() => hasWhiteInk && setIsPaperPreview(false)}
ClickMetPol ==
  /\ isPaperPreview' = MetPolClick(hasWhiteInk, isPaperPreview)
  /\ UNCHANGED <<config, cmykUrl, whiteFile, whiteUrl, varnishFile, varnishUrl,
                 metalnessMapUrl, roughnessMapUrl, clearcoatMapUrl,
                 isProcessing, timer, inFlight>>
  /\ UNCHANGED <<resolveVars, synthVars, rasterVars>>

\* the paper button: onClick={() => setIsPaperPreview(true)}
ClickPaper ==
  /\ isPaperPreview' = TRUE
  /\ UNCHANGED <<config, cmykUrl, whiteFile, whiteUrl, varnishFile, varnishUrl,
                 metalnessMapUrl, roughnessMapUrl, clearcoatMapUrl,
                 isProcessing, timer, inFlight>>
  /\ UNCHANGED <<resolveVars, synthVars, rasterVars>>

\* setConfig(next) and the render after it: the debounce effect runs again
\* only if metalRoughness or paperRoughness changed
setConfig(next) ==
  /\ config' = next
  /\ timer' = IF next.metalRoughness # config.metalRoughness
                 \/ next.paperRoughness # config.paperRoughness
              THEN DebounceEffect(whiteUrl, varnishUrl, next)
              ELSE timer
  /\ UNCHANGED <<cmykUrl, whiteFile, whiteUrl, varnishFile, varnishUrl,
                 metalnessMapUrl, roughnessMapUrl, clearcoatMapUrl,
                 isProcessing, isPaperPreview, inFlight>>
  /\ UNCHANGED <<resolveVars, synthVars, rasterVars>>

SetMetalRoughness(v) == setConfig([config EXCEPT !.metalRoughness = v])

SetPaperRoughness(v) == setConfig([config EXCEPT !.paperRoughness = v])

\* the varnish thickness slider is rendered only with a varnish file
SetVarnishBump(v) ==
  /\ hasVarnishFile
  /\ setConfig([config EXCEPT !.varnishBump = v])

handleResetConfig == setConfig(DEFAULT_CONFIG)

\* the debounce timer fires: processTextures(whiteUrl, varnishUrl) of its closure
TimerFires ==
  /\ timer # NULL
  /\ BagCardinality(inFlight) < MaxInFlight
  /\ processTextures(timer.whiteUrl, timer.varnishUrl,
                     timer.metalRoughness, timer.paperRoughness)
  /\ timer' = NULL
  /\ UNCHANGED <<config, cmykUrl, whiteFile, whiteUrl, varnishFile, varnishUrl,
                 isPaperPreview>>
  /\ UNCHANGED <<resolveVars, synthVars, rasterVars>>

\* an image of a pending call loads or fails; when that settles the promise,
\* processTextures resumes in the same turn
ImageLoadEvent(pending) ==
  /\ UNCHANGED <<resolveVars, synthVars, rasterVars>>
  /\ \E context \in BOOLEAN :
       LET c == ImageEvent([pending EXCEPT !.context = context])
           rest == inFlight (-) SetToBag({pending})
       IN  /\ IF c.pc = "settled"
              THEN /\ processTexturesSettled(c)
                   /\ inFlight' = rest
              ELSE /\ inFlight' = rest (+) SetToBag({[c EXCEPT !.context = TRUE]})
                   /\ UNCHANGED <<metalnessMapUrl, roughnessMapUrl, clearcoatMapUrl,
                                  isProcessing>>
           /\ UNCHANGED <<config, cmykUrl, whiteFile, whiteUrl, varnishFile,
                          varnishUrl, isPaperPreview, timer>>

----------------------------------------------------------------------------
(* Specifications                                                          *)

ResolveIdle ==
  /\ resolveIn = NULL /\ viewerMaterial = NULL
  /\ exportHtml = NULL /\ exportMaterial = NULL

SynthIdle == call = NULL

RasterIdle == raster = NULL

Init == AppInit /\ ResolveIdle /\ SynthIdle /\ RasterIdle

Next ==
  \/ \E file \in {f \in Files : f.decodable} : handleUploadCmyk(file)
  \/ \E file \in Files : handleUploadWhite(file)
  \/ \E file \in Files : handleUploadVarnish(file)
  \/ ClickMetPol
  \/ ClickPaper
  \/ \E v \in MetalRoughnessValues : SetMetalRoughness(v)
  \/ \E v \in PaperRoughnessValues : SetPaperRoughness(v)
  \/ \E v \in VarnishBumpValues : SetVarnishBump(v)
  \/ handleResetConfig
  \/ TimerFires
  \/ \E pending \in BagToSet(inFlight) : ImageLoadEvent(pending)

Spec == Init /\ [][Next]_vars

----------------------------------------------------------------------------
(* SpecResolve: PrintMesh and generateStandaloneHtml on drawn inputs        *)

InkGlossinessValues == {0, 30, 100}
PaperRoughnessScalars == {0, 80, 100}
ExposureValues == {0, 10, 100, 800}
OptionalBumpValues == {Undefined, 0, 2, 20}

ResolveConfigs ==
  [metalRoughness : {20}, paperRoughness : PaperRoughnessScalars,
   inkGlossiness : InkGlossinessValues, exposure : ExposureValues,
   varnishBump : OptionalBumpValues]

\* processTextureMaps awaited to its end
RECURSIVE Await(_)
Await(c) == IF c.pc = "settled" THEN c ELSE Await(ImageEvent(c))

\* the values processTextureMaps can resolve with
ResolvedValues ==
  {c.value : c \in {d \in {Await(Executor(NewCall(imgSrc, varnishSrc, 20, 100, TRUE))) :
                             imgSrc \in Urls, varnishSrc \in Urls} :
                      d.promise = "resolved"}}

\* the three map URLs as the App holds them: null at first (and after the
\* early return of processTextures), else what processTextures stored
StorableMaps ==
  {[metalnessMapUrl |-> NULL, roughnessMapUrl |-> NULL, clearcoatMapUrl |-> NULL]}
    \cup {StoredMaps(value) : value \in ResolvedValues}

ResolveInit ==
  /\ \E maps \in StorableMaps, cfg \in ResolveConfigs, isPaper \in BOOLEAN :
       resolveIn = [cmykUrl |-> createObjectURL([decodable |-> TRUE]),
                    metalnessMapUrl |-> maps.metalnessMapUrl,
                    roughnessMapUrl |-> maps.roughnessMapUrl,
                    clearcoatMapUrl |-> maps.clearcoatMapUrl,
                    config |-> cfg,
                    isPaperPreview |-> isPaper]
  /\ viewerMaterial = NULL
  /\ exportHtml = NULL
  /\ exportMaterial = NULL

\* the viewer renders PrintMesh with the props
RenderPrintMesh ==
  /\ viewerMaterial = NULL
  /\ viewerMaterial' = PrintMesh(resolveIn.cmykUrl, resolveIn.metalnessMapUrl,
                                 resolveIn.roughnessMapUrl, resolveIn.clearcoatMapUrl,
                                 resolveIn.config, resolveIn.isPaperPreview)
  /\ UNCHANGED <<resolveIn, exportHtml, exportMaterial>>
  /\ UNCHANGED <<synthVars, appVars, rasterVars>>

\* handleExport calls generateStandaloneHtml with the same state
GenerateHtml ==
  /\ exportHtml = NULL
  /\ exportHtml' = generateStandaloneHtml(resolveIn.cmykUrl, resolveIn.metalnessMapUrl,
                                          resolveIn.roughnessMapUrl,
                                          resolveIn.clearcoatMapUrl,
                                          resolveIn.config, resolveIn.isPaperPreview)
  /\ UNCHANGED <<resolveIn, viewerMaterial, exportMaterial>>
  /\ UNCHANGED <<synthVars, appVars, rasterVars>>

\* a browser opens the saved page and its script builds the material
RunExportedScript ==
  /\ exportHtml # NULL
  /\ exportMaterial = NULL
  /\ exportMaterial' = StandaloneMaterial(exportHtml)
  /\ UNCHANGED <<resolveIn, viewerMaterial, exportHtml>>
  /\ UNCHANGED <<synthVars, appVars, rasterVars>>

ResolveNext ==
  \/ RenderPrintMesh
  \/ GenerateHtml
  \/ RunExportedScript

InitResolve == ResolveInit /\ SynthIdle /\ AppInit /\ RasterIdle

SpecResolve == InitResolve /\ [][ResolveNext]_vars

\* the materials built so far
ResolvedMaterials == {viewerMaterial, exportMaterial} \ {NULL}

----------------------------------------------------------------------------
(* SpecSynth: one call of processTextureMaps                                *)

SynthRoughnessValues == {20, 100}

SynthInit ==
  call \in {NewCall(imgSrc, varnishSrc, mr, pr, context) :
              imgSrc \in Urls, varnishSrc \in Urls,
              mr \in SynthRoughnessValues, pr \in SynthRoughnessValues,
              context \in BOOLEAN}

SynthExecutor ==
  /\ call.pc = "called"
  /\ call' = Executor(call)
  /\ UNCHANGED <<resolveVars, appVars, rasterVars>>

SynthImgOnload ==
  /\ call.pc = "img" /\ Decodable(call.imgSrc)
  /\ call' = ImageEvent(call)
  /\ UNCHANGED <<resolveVars, appVars, rasterVars>>

SynthImgOnerror ==
  /\ call.pc = "img" /\ ~Decodable(call.imgSrc)
  /\ call' = ImageEvent(call)
  /\ UNCHANGED <<resolveVars, appVars, rasterVars>>

SynthVImgOnload ==
  /\ call.pc = "vImg" /\ Decodable(call.varnishSrc)
  /\ call' = ImageEvent(call)
  /\ UNCHANGED <<resolveVars, appVars, rasterVars>>

SynthVImgOnerror ==
  /\ call.pc = "vImg" /\ ~Decodable(call.varnishSrc)
  /\ call' = ImageEvent(call)
  /\ UNCHANGED <<resolveVars, appVars, rasterVars>>

SynthVImgAloneOnload ==
  /\ call.pc = "vImgAlone" /\ Decodable(call.varnishSrc)
  /\ call' = ImageEvent(call)
  /\ UNCHANGED <<resolveVars, appVars, rasterVars>>

SynthVImgAloneOnerror ==
  /\ call.pc = "vImgAlone" /\ ~Decodable(call.varnishSrc)
  /\ call' = ImageEvent(call)
  /\ UNCHANGED <<resolveVars, appVars, rasterVars>>

SynthNext ==
  \/ SynthExecutor
  \/ SynthImgOnload
  \/ SynthImgOnerror
  \/ SynthVImgOnload
  \/ SynthVImgOnerror
  \/ SynthVImgAloneOnload
  \/ SynthVImgAloneOnerror

InitSynth == SynthInit /\ ResolveIdle /\ AppInit /\ RasterIdle

SpecSynth == InitSynth /\ [][SynthNext]_vars

\* a supplied mask the browser cannot load
CannotLoad(url) == url # NULL /\ ~Decodable(url)

\* the call produced no maps
NoMapsEmitted(c) == c.value = NULL \/ "metalnessMap" \notin DOMAIN c.value

----------------------------------------------------------------------------
(* runProcessing: the pixel buffers                                        *)
(*                                                                         *)
(* A buffer is [pixels |-> a sequence of pixels [r, g, b, a]]: pixel k is  *)
(* bytes 4(k-1) .. 4(k-1)+3 of the Uint8ClampedArray.  A mask image file   *)
(* carries its own pixels; drawImage scales it to the working canvas.  For  *)
(* an image of another size than the canvas the model takes the nearest    *)
(* source pixel (a browser may blend neighbours; the lengths are the same).*)

MathMin(a, b) == IF a < b THEN a ELSE b
MathMax(a, b) == IF a > b THEN a ELSE b

\* the default resolution of processTextureMaps
targetWidth == 1024
targetHeight == 1024

\* const varnishRoughVal = 5
varnishRoughVal == 5

\* const width = whiteImg ? whiteImg.width : (varnishImg ? varnishImg.width : targetWidth)
CanvasWidth(whiteImg, varnishImg) ==
  IF whiteImg # NULL THEN whiteImg.file.image.width
  ELSE IF varnishImg # NULL THEN varnishImg.file.image.width
  ELSE targetWidth

\* const height = whiteImg ? whiteImg.height : (varnishImg ? varnishImg.height : targetHeight)
CanvasHeight(whiteImg, varnishImg) ==
  IF whiteImg # NULL THEN whiteImg.file.image.height
  ELSE IF varnishImg # NULL THEN varnishImg.file.image.height
  ELSE targetHeight

\* the image's own pixels, whatever the size of the canvas
getImageDataNatural(img, width, height) == [pixels |-> img.file.image.data]

\* ctx.drawImage(img, 0, 0, width, height); ctx.getImageData(0, 0, width, height).data:
\* width * height pixels, pixel (x, y) taken from the image scaled to the canvas
getImageData(img, width, height) ==
  [pixels |->
     [k \in 1..(width * height) |->
        LET x == (k - 1) % width
            y == (k - 1) \div width
            sx == (x * img.file.image.width) \div width
            sy == (y * img.file.image.height) \div height
        IN  img.file.image.data[sy * img.file.image.width + sx + 1]]]

\* width * height of the working canvas
CanvasPixels(whiteImg, varnishImg) ==
  CanvasWidth(whiteImg, varnishImg) * CanvasHeight(whiteImg, varnishImg)

\* the inversion loops: R, G and B become 255 - value, alpha is left alone
Invert(data) ==
  [pixels |->
     [k \in DOMAIN data.pixels |->
        [r |-> 255 - data.pixels[k].r, g |-> 255 - data.pixels[k].g,
         b |-> 255 - data.pixels[k].b, a |-> data.pixels[k].a]]]

\* new Uint8ClampedArray(width * height * 4).fill(0)
NoInk(n) == [pixels |-> [k \in 1..n |-> [r |-> 0, g |-> 0, b |-> 0, a |-> 0]]]

\* new Uint8ClampedArray(width * height * 4).fill(255)
FullInk(n) ==
  [pixels |-> [k \in 1..n |-> [r |-> 255, g |-> 255, b |-> 255, a |-> 255]]]

\* 1. Get White Ink Data, without the inversion loop
whiteInkDataRaw(whiteImg, varnishImg) ==
  IF whiteImg # NULL
  THEN getImageData(whiteImg, CanvasWidth(whiteImg, varnishImg),
                    CanvasHeight(whiteImg, varnishImg))
  ELSE FullInk(CanvasPixels(whiteImg, varnishImg))

\* 1. Get White Ink Data
whiteInkData(whiteImg, varnishImg) ==
  IF whiteImg # NULL
  THEN Invert(getImageData(whiteImg, CanvasWidth(whiteImg, varnishImg),
                           CanvasHeight(whiteImg, varnishImg)))
  ELSE FullInk(CanvasPixels(whiteImg, varnishImg))

\* 2. Get Varnish Data
varnishData(whiteImg, varnishImg) ==
  IF varnishImg # NULL
  THEN Invert(getImageData(varnishImg, CanvasWidth(whiteImg, varnishImg),
                           CanvasHeight(whiteImg, varnishImg)))
  ELSE NULL

\* Math.floor(Math.min(1, Math.max(0, metalRoughness)) * 255), rounding instead
metalRoughValRounded(metalRoughness) ==
  (MathMin(100, MathMax(0, metalRoughness)) * 255 + 50) \div 100

\* Math.floor(Math.min(1, Math.max(0, metalRoughness)) * 255)
metalRoughVal(metalRoughness) ==
  (MathMin(100, MathMax(0, metalRoughness)) * 255) \div 100

\* Math.floor(Math.min(255, paperRoughness * 255))
paperRoughVal(paperRoughness) ==
  MathMin(25500, paperRoughness * 255) \div 100

\* const metalVal = 255 - r, as a threshold instead
metalValThreshold(r) == IF r > 127 THEN 0 ELSE 255

\* const metalVal = 255 - r
metalVal(r) == 255 - r

\* varnishData && clearcoatData && varnishData[i] >= 100
isVarnishedAtLeast(varnish, k) ==
  varnish # NULL /\ k \in DOMAIN varnish.pixels /\ varnish.pixels[k].r >= 100

\* isVarnished: varnishData && clearcoatData && varnishData[i] > 100 (a read
\* past the end of a typed array gives undefined, and undefined > 100 is false)
isVarnished(varnish, k) ==
  varnish # NULL /\ k \in DOMAIN varnish.pixels /\ varnish.pixels[k].r > 100

\* the interpolation with its ends exchanged
roughValSwapped(r, metalRough, paperRough) ==
  [num |-> 255 * paperRough + r * (metalRough - paperRough), den |-> 255]

\* roughVal = metalRoughVal + normalizedMask * (paperRoughVal - metalRoughVal),
\* with normalizedMask = r / 255: the exact quotient num / den
roughVal(r, metalRough, paperRough) ==
  [num |-> 255 * metalRough + r * (paperRough - metalRough), den |-> 255]

\* storing a number in a Uint8ClampedArray: round to the nearest integer
\* (a tie goes to the even one), then clamp to 0..255
ToUint8Clamped(q) ==
  LET lo == q.num \div q.den
      twice == 2 * (q.num - lo * q.den)
      nearest == IF twice < q.den THEN lo
                 ELSE IF twice > q.den THEN lo + 1
                 ELSE IF lo % 2 = 0 THEN lo ELSE lo + 1
  IN  MathMin(255, MathMax(0, nearest))

\* data[i] = v, leaving the other three bytes of the fresh array at 0
SampleRedOnly(v) == [r |-> v, g |-> 0, b |-> 0, a |-> 0]

\* data[i] = data[i+1] = data[i+2] = v; data[i+3] = 255
Sample(v) == [r |-> v, g |-> v, b |-> v, a |-> 255]

metalnessData(white) ==
  [pixels |-> [k \in DOMAIN white.pixels |-> Sample(metalVal(white.pixels[k].r))]]

\* the roughness bytes of pixel k, ignoring the varnish
roughnessSampleUnvarnished(white, varnish, k, metalRoughness, paperRoughness) ==
  ToUint8Clamped(roughVal(white.pixels[k].r, metalRoughVal(metalRoughness),
                          paperRoughVal(paperRoughness)))

\* the roughness bytes of pixel k
roughnessSample(white, varnish, k, metalRoughness, paperRoughness) ==
  IF isVarnished(varnish, k) THEN varnishRoughVal
  ELSE ToUint8Clamped(roughVal(white.pixels[k].r, metalRoughVal(metalRoughness),
                               paperRoughVal(paperRoughness)))

roughnessData(white, varnish, metalRoughness, paperRoughness) ==
  [pixels |->
     [k \in DOMAIN white.pixels |->
        Sample(roughnessSample(white, varnish, k, metalRoughness, paperRoughness))]]

\* clearcoatData = new Uint8ClampedArray(...) whatever varnishImg is
clearcoatDataAlways(white, varnish) ==
  [pixels |-> [k \in DOMAIN white.pixels |->
                 Sample(IF isVarnished(varnish, k) THEN 255 ELSE 0)]]

\* clearcoatData = varnishImg ? new Uint8ClampedArray(...) : null, as filled
clearcoatData(white, varnish) ==
  IF varnish = NULL THEN NULL
  ELSE [pixels |-> [k \in DOMAIN white.pixels |->
                      Sample(IF isVarnished(varnish, k) THEN 255 ELSE 0)]]

\* createMapUrl(pixelData): putImageData on a fresh canvas, then toDataURL
createMapUrl(pixelData) == toDataURL(pixelData)

\* the body of runProcessing between the context check and resolve
PixelBuffers(whiteImg, varnishImg, metalRoughness, paperRoughness) ==
  LET white == whiteInkData(whiteImg, varnishImg)
      varnish == varnishData(whiteImg, varnishImg)
  IN  [whiteInkData  |-> white,
       varnishData   |-> varnish,
       metalnessData |-> metalnessData(white),
       roughnessData |-> roughnessData(white, varnish, metalRoughness, paperRoughness),
       clearcoatData |-> clearcoatData(white, varnish)]

\* resolve({ metalnessMap, roughnessMap, clearcoatMap })
ResolvedMaps(buffers) ==
  [metalnessMap |-> createMapUrl(buffers.metalnessData),
   roughnessMap |-> createMapUrl(buffers.roughnessData),
   clearcoatMap |-> IF buffers.clearcoatData # NULL
                    THEN createMapUrl(buffers.clearcoatData) ELSE NULL]

----------------------------------------------------------------------------
(* SpecRaster: processTextureMaps on small mask images                     *)

Gray(v) == [r |-> v, g |-> v, b |-> v, a |-> 255]

\* a decodable mask file of the given size and pixels
MaskFile(width, height, data) ==
  [decodable |-> TRUE, image |-> [width |-> width, height |-> height, data |-> data]]

OnePixel(px) == createObjectURL(MaskFile(1, 1, <<px>>))

\* a 2x2 mask, its four pixels in row-major order
TwoByTwo(v1, v2, v3, v4) ==
  createObjectURL(MaskFile(2, 2, <<Gray(v1), Gray(v2), Gray(v3), Gray(v4)>>))

\* a mask of two grey pixels, side by side (2x1) or one above the other (1x2)
Strip(width, height, v1, v2) ==
  createObjectURL(MaskFile(width, height, <<Gray(v1), Gray(v2)>>))

\* the scalars of the calls: 0.0, 0.05, 0.2, 0.5, 1.0
RoughnessScalars == {0, 5, 20, 50, 100}

\* raw varnish values whose inverted values are 255, 101, 100 and 0
ThresholdValues == {0, 154, 155, 255}

\* pixels of a mask that is neither grey nor opaque
OddPixels == {[r |-> 10, g |-> 200, b |-> 30, a |-> 128],
              [r |-> 250, g |-> 0, b |-> 90, a |-> 0]}

\* the (imgSrc, varnishSrc) pairs of the calls
MaskPairs ==
  {<<OnePixel(Gray(v)), vs>> :
      v \in 0..255, vs \in {NULL, OnePixel(Gray(0)), OnePixel(Gray(255))}}
  \cup {<<ws, OnePixel(Gray(v))>> :
      ws \in {NULL, OnePixel(Gray(0)), OnePixel(Gray(255))}, v \in 0..255}
  \cup {<<OnePixel(px), vs>> :
      px \in OddPixels, vs \in {NULL} \cup {OnePixel(pv) : pv \in OddPixels}}
  \cup {<<TwoByTwo(v1, v2, v3, v4), vs>> :
      v1 \in {0, 255}, v2 \in {0, 255}, v3 \in {0, 255}, v4 \in {0, 255},
      vs \in {NULL, TwoByTwo(0, 154, 155, 255)}}
  \cup {<<TwoByTwo(0, 0, 255, 255), OnePixel(Gray(0))>>,
        <<TwoByTwo(0, 0, 255, 255), OnePixel(Gray(255))>>,
        <<OnePixel(Gray(0)), TwoByTwo(0, 154, 155, 255)>>,
        <<OnePixel(Gray(255)), TwoByTwo(0, 154, 155, 255)>>,
        <<Strip(2, 1, 0, 255), Strip(1, 2, 0, 255)>>,
        <<Strip(1, 2, 0, 255), TwoByTwo(0, 154, 155, 255)>>}
  \cup {<<NULL, NULL>>}

RasterInit ==
  \E pair \in MaskPairs, mr \in RoughnessScalars, pr \in RoughnessScalars :
     raster = [call    |-> NewCall(pair[1], pair[2], mr, pr, TRUE),
               stage   |-> "called",
               buffers |-> NULL,
               value   |-> NULL]

\* the call and its image events, up to the point where runProcessing is
\* entered (or the promise is rejected)
RasterLoad ==
  /\ raster.stage = "called"
  /\ LET settled == Await(Executor(raster.call))
     IN  raster' = [raster EXCEPT
                      !.call = settled,
                      !.stage = IF settled.promise = "resolved"
                                THEN "loaded" ELSE "rejected"]
  /\ UNCHANGED <<resolveVars, synthVars, appVars>>

\* runProcessing fills the buffers; whiteImg and varnishImg are the images
\* the settled call names as the sources of its maps
RasterRunProcessing ==
  /\ raster.stage = "loaded"
  /\ LET sources == raster.call.value.metalnessMap.content
     IN  raster' = [raster EXCEPT
                      !.stage = "filled",
                      !.buffers = PixelBuffers(sources.white, sources.varnish,
                                               sources.metalRoughness,
                                               sources.paperRoughness)]
  /\ UNCHANGED <<resolveVars, synthVars, appVars>>

\* runProcessing resolves the promise with the three map URLs
RasterResolve ==
  /\ raster.stage = "filled"
  /\ raster' = [raster EXCEPT !.stage = "resolved",
                              !.value = ResolvedMaps(raster.buffers)]
  /\ UNCHANGED <<resolveVars, synthVars, appVars>>

RasterNext ==
  \/ RasterLoad
  \/ RasterRunProcessing
  \/ RasterResolve

InitRaster == RasterInit /\ ResolveIdle /\ SynthIdle /\ AppInit

SpecRaster == InitRaster /\ [][RasterNext]_vars

\* the buffers exist from the moment runProcessing has filled them
Filled == raster.stage \in {"filled", "resolved"}

\* the red values of a buffer, pixel by pixel
Reds(data) == [k \in DOMAIN data.pixels |-> data.pixels[k].r]

\* the images runProcessing is called with, for the call in raster
WhiteImg == IF raster.call.imgSrc # NULL THEN useTexture(raster.call.imgSrc) ELSE NULL
VarnishImg ==
  IF raster.call.varnishSrc # NULL THEN useTexture(raster.call.varnishSrc) ELSE NULL

\* the raw (pre-inversion) red values of a mask URL, pixel by pixel of the
\* working canvas
RawRed(url) ==
  Reds(getImageData(useTexture(url), CanvasWidth(WhiteImg, VarnishImg),
                    CanvasHeight(WhiteImg, VarnishImg)))

----------------------------------------------------------------------------
(* What the App shows and what it would export, in the current state       *)

\* PrintSimulator hands the App's state to PrintMesh (once artwork is loaded)
AppViewerMaterial ==
  PrintMesh(cmykUrl, metalnessMapUrl, roughnessMapUrl, clearcoatMapUrl,
            config, isPaperPreview)

\* handleExport hands the same state to generateStandaloneHtml
AppExportMaterial ==
  StandaloneMaterial(
    generateStandaloneHtml(cmykUrl, metalnessMapUrl, roughnessMapUrl,
                           clearcoatMapUrl, config, isPaperPreview))

\* both are defined only with CMYK artwork: PrintSimulator renders a
\* placeholder and handleExport returns early without it
AppMaterials == {AppViewerMaterial, AppExportMaterial}

----------------------------------------------------------------------------
(* Claims                                                                  *)

\* C1: the viewer and the export select identical material parameters (the
\* same maps bound, the same metalness, roughness, clearcoat, bumpScale and
\* envMapIntensity) for every preview mode, map presence and config.
C1_ViewerEqualsExport ==
  cmykUrl # NULL => AppViewerMaterial = AppExportMaterial

\* C2: with a clearcoat map and PAPER preview, the metalness scalar is 0.0
\* while the metalness, roughness and clearcoat maps are all bound, in the
\* viewer and in the export.
C2_PaperVarnishKeepsMaps ==
  (resolveIn.clearcoatMapUrl # NULL /\ resolveIn.isPaperPreview) =>
    \A m \in ResolvedMaterials :
      /\ m.metalness = 0
      /\ m.metalnessMap # NULL
      /\ m.roughnessMap # NULL
      /\ m.clearcoatMap # NULL

C2_Witness ==
  /\ resolveIn.clearcoatMapUrl # NULL /\ resolveIn.isPaperPreview
  /\ viewerMaterial # NULL /\ exportMaterial # NULL
  /\ exportMaterial.metalnessMap = useTexture(resolveIn.metalnessMapUrl)
  /\ resolveIn.config.inkGlossiness = 100

\* C3: with a clearcoat map bumpScale equals config.varnishBump for every
\* varnishBump in [0, 0.2] (0.02 only when it is not set); without one it is
\* 0; in the viewer and in the export.
C3_BumpScaleIsVarnishBump ==
  cmykUrl # NULL =>
    \A m \in AppMaterials :
      m.bumpScale = (IF clearcoatMapUrl = NULL THEN 0
                     ELSE IF config.varnishBump = Undefined THEN 2
                     ELSE config.varnishBump)

\* C4: without a clearcoat map and in METAL preview: metalness and roughness
\* maps bound, metalness 1.0, roughness 1.0, clearcoat config.inkGlossiness,
\* no clearcoat map, bumpScale 0, in the viewer and in the export, whatever
\* the other inputs.
C4_MetalNoVarnishRow ==
  (cmykUrl # NULL /\ clearcoatMapUrl = NULL /\ ~isPaperPreview) =>
    \A m \in AppMaterials :
      /\ m.metalnessMap # NULL /\ m.roughnessMap # NULL
      /\ m.metalness = 100 /\ m.roughness = 100
      /\ m.clearcoat = config.inkGlossiness
      /\ m.clearcoatMap = NULL
      /\ m.bumpScale = 0

\* C5: without a clearcoat map and in PAPER preview: no metalness, roughness
\* or clearcoat map, metalness 0.0, roughness config.paperRoughness,
\* clearcoat 0.0, bumpScale 0, in the viewer and in the export, even with
\* generated metalness/roughness map URLs present.
C5_PaperNoVarnishRow ==
  (resolveIn.clearcoatMapUrl = NULL /\ resolveIn.isPaperPreview) =>
    \A m \in ResolvedMaterials :
      /\ m.metalnessMap = NULL /\ m.roughnessMap = NULL /\ m.clearcoatMap = NULL
      /\ m.metalness = 0
      /\ m.roughness = resolveIn.config.paperRoughness
      /\ m.clearcoat = 0
      /\ m.bumpScale = 0

C5_Witness ==
  /\ resolveIn.clearcoatMapUrl = NULL /\ resolveIn.isPaperPreview
  /\ resolveIn.metalnessMapUrl # NULL /\ resolveIn.roughnessMapUrl # NULL
  /\ resolveIn.config.paperRoughness = 80
  /\ resolveIn.config.inkGlossiness = 30
  /\ viewerMaterial # NULL /\ exportMaterial # NULL

\* C6: in every material (viewer and export) the metalness map is bound if
\* and only if the roughness map is bound.
C6_MetalnessMapIffRoughnessMap ==
  \A m \in ResolvedMaterials : (m.metalnessMap # NULL) <=> (m.roughnessMap # NULL)

C6_Witness ==
  /\ ~resolveIn.isPaperPreview /\ resolveIn.metalnessMapUrl # NULL
  /\ viewerMaterial # NULL /\ exportMaterial # NULL
  /\ exportMaterial.metalnessMap # NULL /\ exportMaterial.roughnessMap # NULL

\* C7: in every material (viewer and export) a bound clearcoat map comes with
\* clearcoat exactly 1.0; clearcoat is inkGlossiness or 0.0 only without a
\* clearcoat map.
C7_ClearcoatMapMeansUnity ==
  \A m \in ResolvedMaterials :
    /\ m.clearcoatMap # NULL => m.clearcoat = 100
    /\ m.clearcoatMap = NULL =>
         m.clearcoat = (IF resolveIn.isPaperPreview THEN 0
                        ELSE resolveIn.config.inkGlossiness)

C7_Witness ==
  /\ viewerMaterial # NULL /\ exportMaterial # NULL
  /\ viewerMaterial.clearcoatMap # NULL /\ exportMaterial.clearcoatMap # NULL
  /\ ~resolveIn.isPaperPreview
  /\ resolveIn.config.inkGlossiness = 30

C9_RejectsOnAnyLoadFailure ==
  (call.pc = "settled" /\ (CannotLoad(call.imgSrc) \/ CannotLoad(call.varnishSrc))) =>
    (call.promise = "rejected" /\ NoMapsEmitted(call))

\* C9 as amended: processTextureMaps rejects, emitting no maps, when the
\* white-ink mask cannot be loaded, or when the varnish mask cannot be loaded
\* and no white-ink mask was supplied; when the white-ink mask loads and the
\* varnish mask does not, it goes on as if no varnish mask had been supplied
\* and (given a 2D canvas context) resolves with metalness and roughness maps
\* and clearcoatMap null.
C9_RejectsUnlessWhiteLoaded ==
  call.pc = "settled" =>
    /\ CannotLoad(call.imgSrc) =>
         (call.promise = "rejected" /\ NoMapsEmitted(call))
    /\ (call.imgSrc = NULL /\ CannotLoad(call.varnishSrc)) =>
         (call.promise = "rejected" /\ NoMapsEmitted(call))
    /\ (call.imgSrc # NULL /\ ~CannotLoad(call.imgSrc)
          /\ CannotLoad(call.varnishSrc) /\ call.context) =>
         /\ call.promise = "resolved"
         /\ call.value.clearcoatMap = NULL
         /\ call.value.metalnessMap # NULL /\ call.value.roughnessMap # NULL
         /\ call.value.metalnessMap.content.varnish = NULL
         /\ call.value.roughnessMap.content.varnish = NULL

C9_Witness ==
  /\ call.pc = "settled" /\ call.promise = "resolved"
  /\ call.imgSrc # NULL /\ CannotLoad(call.varnishSrc)

\* C10: called with neither mask, processTextureMaps always rejects with
\* "No textures to process" and produces no maps, whatever the roughness
\* scalars.
C10_NothingToProcessRejects ==
  (call.pc # "called" /\ call.imgSrc = NULL /\ call.varnishSrc = NULL) =>
    /\ call.pc = "settled"
    /\ call.promise = "rejected"
    /\ call.value = [error |-> "No textures to process"]
    /\ NoMapsEmitted(call)

C10_Witness ==
  /\ call.imgSrc = NULL /\ call.varnishSrc = NULL
  /\ call.promise = "rejected"
  /\ call.metalRoughness = 100 /\ call.paperRoughness = 20

\* the call whose buffers are in raster: the 2x2 white-ink mask with raw red
\* values 0, 0, 255, 255, no varnish mask, metalRoughness 0.2, paperRoughness 1.0
ExampleCall ==
  /\ raster # NULL /\ Filled
  /\ raster.call.imgSrc = TwoByTwo(0, 0, 255, 255)
  /\ raster.call.varnishSrc = NULL
  /\ raster.call.metalRoughness = 20 /\ raster.call.paperRoughness = 100

\* C11 as claimed: for the 2x2 white-ink mask with raw red values
\* [0,0,255,255], no varnish mask, metalRoughness 0.2 and paperRoughness 1.0,
\* the roughness samples are [51,51,255,255] in row-major order.
C11_ExampleRoughnessAsClaimed ==
  ExampleCall => Reds(raster.buffers.roughnessData) = <<51, 51, 255, 255>>

\* C11, amended: for that call the roughness samples are [255,255,51,51] in
\* row-major order (the inverted samples are [255,255,0,0] and the metalness
\* samples [0,0,255,255]).
C11_ExampleRoughness ==
  ExampleCall =>
    /\ Reds(raster.buffers.whiteInkData) = <<255, 255, 0, 0>>
    /\ Reds(raster.buffers.metalnessData) = <<0, 0, 255, 255>>
    /\ Reds(raster.buffers.roughnessData) = <<255, 255, 51, 51>>

C11_Witness ==
  /\ ExampleCall
  /\ raster.stage = "resolved"
  /\ Reds(useTexture(raster.value.roughnessMap)) = <<255, 255, 51, 51>>

\* C12: at every pixel the metalness sample plus the post-inversion white-ink
\* sample is exactly 255, for all roughness scalars; a raw white-mask value v
\* yields the inverted sample 255 - v and the metalness sample v.
C12_MetalnessComplementsInk ==
  (raster # NULL /\ Filled) =>
    \A k \in DOMAIN raster.buffers.metalnessData.pixels :
      /\ raster.buffers.metalnessData.pixels[k].r
           + raster.buffers.whiteInkData.pixels[k].r = 255
      /\ raster.call.imgSrc # NULL =>
           /\ raster.buffers.whiteInkData.pixels[k].r
                = 255 - RawRed(raster.call.imgSrc)[k]
           /\ raster.buffers.metalnessData.pixels[k].r
                = RawRed(raster.call.imgSrc)[k]

C12_Witness ==
  /\ raster # NULL /\ Filled
  /\ raster.call.imgSrc = OnePixel(Gray(77))
  /\ raster.call.metalRoughness = 5 /\ raster.call.paperRoughness = 50
  /\ Reds(raster.buffers.whiteInkData) = <<178>>
  /\ Reds(raster.buffers.metalnessData) = <<77>>

\* C13: when a varnish mask is processed, each clearcoat sample is 255 if the
\* inverted varnish sample at that pixel is strictly greater than 100 and 0
\* otherwise (100 gives 0, 101 gives 255); no other value appears.
C13_ClearcoatThreshold ==
  (raster # NULL /\ Filled /\ raster.call.varnishSrc # NULL) =>
    /\ raster.buffers.clearcoatData # NULL
    /\ \A k \in DOMAIN raster.buffers.clearcoatData.pixels :
         /\ raster.buffers.varnishData.pixels[k].r
              = 255 - RawRed(raster.call.varnishSrc)[k]
         /\ raster.buffers.clearcoatData.pixels[k].r
              = (IF 255 - RawRed(raster.call.varnishSrc)[k] > 100 THEN 255 ELSE 0)

C13_Witness ==
  /\ raster # NULL /\ Filled
  /\ raster.call.varnishSrc = TwoByTwo(0, 154, 155, 255)
  /\ Reds(raster.buffers.varnishData) = <<255, 101, 100, 0>>
  /\ Reds(raster.buffers.clearcoatData) = <<255, 255, 0, 0>>

\* pixel k of the filled buffers is not varnished
Unvarnished(k) == ~isVarnished(raster.buffers.varnishData, k)

\* C14 as claimed: at every unvarnished pixel the roughness sample is the
\* interpolation metalRoughness*255 + (r/255)*(paperRoughness*255 -
\* metalRoughness*255), r the inverted white-ink sample; read as generously
\* as an 8-bit sample allows: it is less than one unit away from that value.
\* (In hundredths the value is e / 100 with e = 255*mr + r*(pr - mr); it
\* lies in [0,255] for scalars in [0,1], so the clamp changes nothing.)
C14_InterpolationAsClaimed ==
  (raster # NULL /\ Filled) =>
    \A k \in DOMAIN raster.buffers.roughnessData.pixels :
      Unvarnished(k) =>
        LET r == raster.buffers.whiteInkData.pixels[k].r
            sample == raster.buffers.roughnessData.pixels[k].r
            e == 255 * raster.call.metalRoughness
                   + r * (raster.call.paperRoughness - raster.call.metalRoughness)
        IN  /\ 100 * sample - e < 100
            /\ e - 100 * sample < 100

\* C14, amended: at every unvarnished pixel the roughness sample is the
\* integer nearest to M + (r/255)*(P - M), where M = floor(metalRoughness*255)
\* and P = floor(paperRoughness*255); it is M at r = 0 and P at r = 255, for
\* all scalars in [0,1].
C14_InterpolationOfFlooredEnds ==
  (raster # NULL /\ Filled) =>
    \A k \in DOMAIN raster.buffers.roughnessData.pixels :
      Unvarnished(k) =>
        LET r == raster.buffers.whiteInkData.pixels[k].r
            sample == raster.buffers.roughnessData.pixels[k].r
            M == (255 * raster.call.metalRoughness) \div 100
            P == (255 * raster.call.paperRoughness) \div 100
            d == 255 * sample - (255 * M + r * (P - M))
        IN  /\ sample \in 0..255
            /\ 2 * d <= 255 /\ -255 <= 2 * d
            /\ r = 0 => sample = M
            /\ r = 255 => sample = P

C14_Witness ==
  /\ raster # NULL /\ Filled
  /\ raster.call.metalRoughness = 5 /\ raster.call.paperRoughness = 0
  /\ raster.call.varnishSrc = NULL
  /\ Reds(raster.buffers.whiteInkData) = <<11>>
  /\ Reds(raster.buffers.roughnessData) = <<11>>

\* C15: for unvarnished pixels and scalars with paperRoughness >=
\* metalRoughness, the roughness sample is non-decreasing in the inverted
\* white-ink sample r over 0..255: the sample of a pixel is at most the sample
\* the same call gives to any larger r, and at least the one of any smaller r.
C15_RoughnessMonotone ==
  (raster # NULL /\ Filled
     /\ raster.call.paperRoughness >= raster.call.metalRoughness) =>
    \A k \in DOMAIN raster.buffers.roughnessData.pixels :
      Unvarnished(k) =>
        LET r == raster.buffers.whiteInkData.pixels[k].r
            sample == raster.buffers.roughnessData.pixels[k].r
            At(x) == ToUint8Clamped(roughVal(x, metalRoughVal(raster.call.metalRoughness),
                                             paperRoughVal(raster.call.paperRoughness)))
        IN  /\ sample = At(r)
            /\ \A x \in 0..255 : (x < r => At(x) <= sample) /\ (x > r => sample <= At(x))

C15_Witness ==
  /\ raster # NULL /\ Filled
  /\ raster.call.metalRoughness = 20 /\ raster.call.paperRoughness = 100
  /\ Unvarnished(1)
  /\ Reds(raster.buffers.whiteInkData) = <<128>>
  /\ Reds(raster.buffers.roughnessData) = <<153>>

\* C16: at every varnished pixel (inverted varnish sample > 100) the roughness
\* sample is 5, whatever the white-ink sample there and whatever
\* metalRoughness and paperRoughness are.
C16_VarnishedRoughnessIsFive ==
  (raster # NULL /\ Filled /\ raster.call.varnishSrc # NULL) =>
    \A k \in DOMAIN raster.buffers.roughnessData.pixels :
      255 - RawRed(raster.call.varnishSrc)[k] > 100 =>
        raster.buffers.roughnessData.pixels[k].r = 5

C16_Witness ==
  /\ raster # NULL /\ Filled
  /\ raster.call.imgSrc = OnePixel(Gray(40))
  /\ raster.call.varnishSrc = OnePixel(Gray(0))
  /\ raster.call.metalRoughness = 50 /\ raster.call.paperRoughness = 100
  /\ Reds(raster.buffers.roughnessData) = <<5>>

\* C17: a call with a varnish mask and no white-ink mask treats every pixel as
\* full ink coverage (inverted white-ink sample 255): every metalness sample
\* is 0 and every unvarnished pixel's roughness sample is the paper-roughness
\* value floor(paperRoughness*255).
C17_VarnishOnlyIsFullInk ==
  (raster # NULL /\ Filled
     /\ raster.call.imgSrc = NULL /\ raster.call.varnishSrc # NULL) =>
    \A k \in DOMAIN raster.buffers.roughnessData.pixels :
      /\ raster.buffers.whiteInkData.pixels[k].r = 255
      /\ raster.buffers.metalnessData.pixels[k].r = 0
      /\ 255 - RawRed(raster.call.varnishSrc)[k] <= 100 =>
           raster.buffers.roughnessData.pixels[k].r
             = (255 * raster.call.paperRoughness) \div 100

C17_Witness ==
  /\ raster # NULL /\ Filled
  /\ raster.call.imgSrc = NULL
  /\ raster.call.varnishSrc = OnePixel(Gray(155))
  /\ raster.call.metalRoughness = 20 /\ raster.call.paperRoughness = 50
  /\ Reds(raster.buffers.metalnessData) = <<0>>
  /\ Reds(raster.buffers.roughnessData) = <<127>>

\* C18: a call with a white-ink mask and no varnish mask produces no clearcoat
\* map (clearcoatMap is null) and treats every pixel as unvarnished: every
\* roughness sample is the interpolation between the metal and the paper
\* value, never the varnish constant in its place.
C18_NoVarnishNoClearcoat ==
  (raster # NULL /\ Filled
     /\ raster.call.imgSrc # NULL /\ raster.call.varnishSrc = NULL) =>
    /\ raster.buffers.clearcoatData = NULL
    /\ raster.stage = "resolved" => raster.value.clearcoatMap = NULL
    /\ \A k \in DOMAIN raster.buffers.roughnessData.pixels :
         LET M == (255 * raster.call.metalRoughness) \div 100
             P == (255 * raster.call.paperRoughness) \div 100
             d == 255 * raster.buffers.roughnessData.pixels[k].r
                    - (255 * M + (255 - RawRed(raster.call.imgSrc)[k]) * (P - M))
         IN  2 * d <= 255 /\ -255 <= 2 * d

C18_Witness ==
  /\ raster # NULL /\ raster.stage = "resolved"
  /\ raster.call.imgSrc = OnePixel(Gray(40)) /\ raster.call.varnishSrc = NULL
  /\ raster.call.metalRoughness = 20 /\ raster.call.paperRoughness = 100
  /\ raster.value.clearcoatMap = NULL
  /\ Reds(useTexture(raster.value.roughnessMap)) = <<223>>

\* the pixels of the derived maps: the filled buffers, and the maps resolved
DerivedPixels ==
  UNION {{b.pixels[k] : k \in DOMAIN b.pixels} :
           b \in ({raster.buffers.metalnessData, raster.buffers.roughnessData,
                   raster.buffers.clearcoatData}
                  \cup (IF raster.stage = "resolved"
                        THEN {useTexture(u) :
                                u \in {raster.value.metalnessMap,
                                       raster.value.roughnessMap,
                                       raster.value.clearcoatMap} \ {NULL}}
                        ELSE {})) \ {NULL}}

\* C19: in every derived map (metalness, roughness, and clearcoat when there
\* is one) every pixel has identical red, green and blue values and alpha 255.
C19_GreyOpaqueMaps ==
  (raster # NULL /\ Filled) =>
    \A px \in DerivedPixels : px.r = px.g /\ px.g = px.b /\ px.a = 255

C19_Witness ==
  /\ raster # NULL /\ raster.stage = "resolved"
  /\ raster.call.imgSrc = OnePixel([r |-> 10, g |-> 200, b |-> 30, a |-> 128])
  /\ raster.call.varnishSrc = OnePixel([r |-> 250, g |-> 0, b |-> 90, a |-> 0])
  /\ raster.value.clearcoatMap # NULL
  /\ useTexture(raster.value.metalnessMap).pixels = <<Gray(10)>>

\* C20: the environment intensity applied to the material is config.exposure
\* in METAL mode and config.exposure * 0.2 in PAPER mode (five times the
\* intensity is the exposure), whether or not there is a varnish map, in the
\* viewer and in the export.
C20_EnvIntensityByMode ==
  \A m \in ResolvedMaterials :
    IF resolveIn.isPaperPreview
    THEN 5 * m.envMapIntensity = resolveIn.config.exposure
    ELSE m.envMapIntensity = resolveIn.config.exposure

C20_Witness ==
  /\ resolveIn.isPaperPreview /\ resolveIn.clearcoatMapUrl # NULL
  /\ resolveIn.config.exposure = 800
  /\ viewerMaterial # NULL /\ exportMaterial # NULL
  /\ viewerMaterial.envMapIntensity = 160
  /\ exportMaterial.envMapIntensity = 160

\* C21: in every App state in which the viewer binds a metalness or roughness
\* map (METAL preview, or a clearcoat map exists) the generated metalness and
\* roughness map URLs are non-null, so the bound textures are the generated
\* maps and never the CMYK artwork.
C21_BoundMapsAreGenerated ==
  (cmykUrl # NULL /\ (~isPaperPreview \/ clearcoatMapUrl # NULL)) =>
    /\ metalnessMapUrl # NULL
    /\ roughnessMapUrl # NULL
    /\ AppViewerMaterial.metalnessMap = useTexture(metalnessMapUrl)
    /\ AppViewerMaterial.roughnessMap = useTexture(roughnessMapUrl)

\* no timer is pending and no synthesis is in flight
Quiescent == timer = NULL /\ BagCardinality(inFlight) = 0

\* processTextureMaps for the inputs the App holds now, awaited to its end
CurrentSynthesis ==
  Await(Executor(NewCall(whiteUrl, varnishUrl,
                         config.metalRoughness, config.paperRoughness, TRUE)))

\* C22: once no timer is pending and no synthesis is in flight, the stored
\* maps are the ones synthesized from the current white mask, varnish mask,
\* metalRoughness and paperRoughness (where those can be synthesized at all):
\* an earlier synthesis never overwrites the result of a later one.
C22_QuiescentMapsAreCurrent ==
  (Quiescent /\ metalnessMapUrl # NULL /\ CurrentSynthesis.promise = "resolved") =>
    /\ metalnessMapUrl = StoredMaps(CurrentSynthesis.value).metalnessMapUrl
    /\ roughnessMapUrl = StoredMaps(CurrentSynthesis.value).roughnessMapUrl
    /\ clearcoatMapUrl = StoredMaps(CurrentSynthesis.value).clearcoatMapUrl

\* C23: isProcessing is true whenever at least one synthesis started by
\* processTextures is in flight, and false once none is.
C23_ProcessingIffInFlight ==
  isProcessing <=> BagCardinality(inFlight) > 0

\* C24: the stored map URLs are consistent: metalnessMapUrl is null exactly
\* when roughnessMapUrl is, and clearcoatMapUrl is non-null only if both
\* metalnessMapUrl and roughnessMapUrl are non-null.
C24_StoredUrlsConsistent ==
  /\ (metalnessMapUrl = NULL) <=> (roughnessMapUrl = NULL)
  /\ clearcoatMapUrl # NULL => (metalnessMapUrl # NULL /\ roughnessMapUrl # NULL)

C24_Witness ==
  /\ whiteUrl = NULL /\ varnishUrl # NULL
  /\ clearcoatMapUrl # NULL
  /\ metalnessMapUrl # NULL /\ roughnessMapUrl # NULL
  /\ BagCardinality(inFlight) > 0

C27_BuffersSameLength ==
  (raster # NULL /\ Filled) =>
    LET size == IF raster.call.imgSrc # NULL
                THEN raster.call.imgSrc.content.file.image
                ELSE raster.call.varnishSrc.content.file.image
        n == size.width * size.height
    IN  /\ Len(raster.buffers.whiteInkData.pixels) = n
        /\ Len(raster.buffers.metalnessData.pixels) = n
        /\ Len(raster.buffers.roughnessData.pixels) = n
        /\ raster.call.varnishSrc # NULL =>
             /\ raster.buffers.varnishData # NULL
             /\ Len(raster.buffers.varnishData.pixels) = n
             /\ raster.buffers.clearcoatData # NULL
             /\ Len(raster.buffers.clearcoatData.pixels) = n

C27_Witness ==
  /\ raster # NULL /\ Filled
  /\ raster.call.imgSrc = TwoByTwo(0, 0, 255, 255)
  /\ raster.call.varnishSrc = OnePixel(Gray(0))
  /\ Len(raster.buffers.varnishData.pixels) = 4
  /\ Reds(raster.buffers.clearcoatData) = <<255, 255, 255, 255>>

====
